---- MODULE Spec2Model ----
(***************************************************************************)
(* Streaming talking-avatar sessions of services/generator.py, driven by   *)
(* the consumer loop of api.py, together with the pure windowing helpers   *)
(* of utils.py and audio_pipeline/.                                        *)
(*                                                                         *)
(* One session is one async generator object.  It runs only between a      *)
(* consumer __anext__ and the next yield; every call to a collaborator     *)
(* (TTS, audio encoder, generator network) is split into a call and a      *)
(* return so that a failing or stalled collaborator is visible.            *)
(***************************************************************************)
EXTENDS Integers, Sequences, FiniteSets, TLC

(***************************************************************************)
(* Bounds of the model                                                     *)
(***************************************************************************)
MaxMelSteps == 60      \* mel lengths 16 + 4*j, j in 0..MaxMelSteps, are explored
MaxShortMel == 3       \* mel lengths 1..MaxShortMel (shorter than one window)
MaxTemplates == 4      \* template sets of 0..MaxTemplates source frames
MaxProcSteps == 2      \* processing time of a frame: 0..MaxProcSteps * ProcStep ms
MaxIdleFrames == 8     \* idle frames explored before the model stops the idle loop
MaxFeat == 12          \* feature-sequence lengths of the pure-function checks
MaxCropMel == 40       \* spectrogram widths of the pure-function checks
MaxCropFrame == 14     \* frame indices of the pure-function checks
MaxCountMel == 400     \* spectrogram widths of the frame-count checks
MaxWavSteps == 80      \* waveforms of 50 * k samples, k in 1..MaxWavSteps
MaxDbSteps == 20       \* mel amplitudes of -140 + 10 * j dB, j in 0..MaxDbSteps
MaxImg == 3            \* full frames of MaxImg x MaxImg pixels in the paste checks

ProcStep == 25

(***************************************************************************)
(* Program constants                                                       *)
(***************************************************************************)
chunk_size == 50
step_size == 4
context_size == 16
max_retries_12 == 10 + 2     \* variant: a larger retry budget
max_retries == 10
pad_frames == 8
look_ahead == 10
fps_default == 25

Min(a, b) == IF a < b THEN a ELSE b
Max(a, b) == IF a > b THEN a ELSE b

Zero == -1             \* an all-zero embedding row (torch.zeros_like)

(***************************************************************************)
(* Python slicing  s[a:b]  on a sequence of length n (0-based bounds,      *)
(* negative bounds count from the end, out-of-range bounds are clamped).   *)
(***************************************************************************)
PyNorm(n, k) == IF k < 0 THEN Max(0, n + k) ELSE Min(k, n)

PySliceLen(n, a, b) == Max(0, PyNorm(n, b) - PyNorm(n, a))

PySlice(s, a, b) ==
    LET lo == PyNorm(Len(s), a)
        hi == PyNorm(Len(s), b)
    IN  IF hi <= lo THEN << >> ELSE SubSeq(s, lo + 1, hi)

Zeros(k) == [j \in 1..k |-> Zero]

(***************************************************************************)
(* Pure helpers of the audio path                                          *)
(***************************************************************************)

\* generator.py: num_frames = max(1, (mel_tensor.shape[0] - context_size) // step_size + 1)
NumFrames(mel_rows) == Max(1, ((mel_rows - context_size) \div step_size) + 1)

\* generator.py: mel_idx = i * step_size, clamped to the end of the spectrogram
MelIdx(i, mel_rows) ==
    IF i * step_size + context_size > mel_rows
    THEN mel_rows - context_size
    ELSE i * step_size

\* rows of mel_tensor[mel_idx : mel_idx + context_size]
MelWindowRows(i, mel_rows) ==
    PySliceLen(mel_rows, MelIdx(i, mel_rows), MelIdx(i, mel_rows) + context_size)

\* utils.py get_audio_features: the padding is zeros_like(auds[:pad]), so it
\* can never be longer than what auds holds at that moment.
get_audio_features(features, index) ==
    LET n         == Len(features)
        left0     == index - 8
        right0    == index + 8
        pad_left  == IF left0 < 0 THEN -left0 ELSE 0
        left      == IF left0 < 0 THEN 0 ELSE left0
        pad_right == IF right0 > n THEN right0 - n ELSE 0
        right     == IF right0 > n THEN n ELSE right0
        auds0     == PySlice(features, left, right)
        auds1     == IF pad_left > 0
                     THEN Zeros(Len(PySlice(auds0, 0, pad_left))) \o auds0
                     ELSE auds0
        auds2     == IF pad_right > 0
                     THEN auds1 \o Zeros(Len(PySlice(auds1, 0, pad_right)))
                     ELSE auds1
    IN  auds2

\* audio_encoder.py get_audio_features_for_frame: np.zeros((pad, 512)) padding
get_audio_features_for_frame(all_features, frame_idx) ==
    LET n         == Len(all_features)
        left0     == frame_idx - 8
        right0    == frame_idx + 8
        pad_left  == IF left0 < 0 THEN -left0 ELSE 0
        left      == IF left0 < 0 THEN 0 ELSE left0
        pad_right == IF right0 > n THEN right0 - n ELSE 0
        right     == IF right0 > n THEN n ELSE right0
        window    == PySlice(all_features, left, right)
    IN  Zeros(pad_left) \o window \o Zeros(pad_right)

\* variant: the window is not shifted back at the end of the spectrogram
CropStart_unclamped(n_mel, frame, fps) == (80 * frame) \div fps

\* start and end column of crop_audio_window (both implementations)
CropStart(n_mel, frame, fps) ==
    LET start_idx == (80 * frame) \div fps
    IN  IF start_idx + 16 > n_mel THEN n_mel - 16 ELSE start_idx

CropEnd(n_mel, frame, fps) ==
    LET start_idx == (80 * frame) \div fps
    IN  IF start_idx + 16 > n_mel THEN n_mel ELSE start_idx + 16

\* utils.py AudDataset.crop_audio_window: returns spec[start_idx:end_idx, :]
AudDataset_crop_audio_window(n_mel, frame) ==
    [start  |-> CropStart(n_mel, frame, 25),
     end    |-> CropEnd(n_mel, frame, 25),
     rows   |-> PySliceLen(n_mel, CropStart(n_mel, frame, 25), CropEnd(n_mel, frame, 25)),
     raised |-> FALSE]

\* mel_processor.py crop_audio_window: raises ValueError unless 16 rows
crop_audio_window(n_mel, frame, fps) ==
    LET got == PySliceLen(n_mel, CropStart(n_mel, frame, fps), CropEnd(n_mel, frame, fps))
    IN  [start  |-> CropStart(n_mel, frame, fps),
         end    |-> CropEnd(n_mel, frame, fps),
         rows   |-> got,
         raised |-> got # 16]

Iota(n) == [j \in 1..n |-> j - 1]     \* the feature rows 0..n-1

(***************************************************************************)
(* Python float arithmetic (IEEE 754 binary64, round to nearest even).     *)
(* A non-zero float is  sign * 1.b2...b53 * 2^exp ; bits holds the 53      *)
(* significant bits, most significant first.  Bit strings are handled in   *)
(* limbs of 20 bits so that every intermediate integer stays small.        *)
(***************************************************************************)
mant_dig == 53         \* sys.float_info.mant_dig
limb == 20

RECURSIVE Pow2(_)
Pow2(k) == IF k = 0 THEN 1 ELSE 2 * Pow2(k - 1)

\* 2^k modulo m, by repeated squaring
RECURSIVE Pow2Mod(_, _)
Pow2Mod(k, m) ==
    IF k = 0 THEN 1 % m
    ELSE IF k % 2 = 0
         THEN (Pow2Mod(k \div 2, m) * Pow2Mod(k \div 2, m)) % m
         ELSE (2 * Pow2Mod(k - 1, m)) % m

RECURSIVE BinDigits(_)
BinDigits(k) == IF k < 2 THEN << k >> ELSE Append(BinDigits(k \div 2), k % 2)

\* v < 2^w written on exactly w bits
FixedBits(v, w) == [j \in 1..w |-> (v \div Pow2(w - j)) % 2]

RECURSIVE BitsToInt(_)
BitsToInt(s) ==
    IF s = << >> THEN 0
    ELSE 2 * BitsToInt(SubSeq(s, 1, Len(s) - 1)) + s[Len(s)]

\* remainder of the long division rem/den (rem < den) after count bits
DivRem(rem, den, count) == (rem * Pow2Mod(count, den)) % den

\* the first count bits of rem/den after the binary point
DivBits(rem, den, count) ==
    [j \in 1..count |-> IF 2 * DivRem(rem, den, j - 1) >= den THEN 1 ELSE 0]

\* s + 1 on a bit string; a carry out of the top gives 1 0...0
IncBits(s) ==
    IF \A j \in 1..Len(s) : s[j] = 1
    THEN << 1 >> \o [j \in 1..Len(s) |-> 0]
    ELSE LET z == CHOOSE j \in 1..Len(s) :
                     s[j] = 0 /\ \A h \in (j + 1)..Len(s) : s[h] = 1
         IN  [j \in 1..Len(s) |-> IF j < z THEN s[j] ELSE IF j = z THEN 1 ELSE 0]

\* round the bit string s (leading bit 1, weight 2^exp, Len(s) >= 53,
\* sticky: non-zero bits follow s) to 53 bits, ties to even
RoundNearestEven(neg, s, exp, sticky) ==
    LET kept   == SubSeq(s, 1, mant_dig)
        guard  == IF Len(s) > mant_dig THEN s[mant_dig + 1] ELSE 0
        tail   == sticky \/ \E j \in (mant_dig + 2)..Len(s) : s[j] = 1
        up     == guard = 1 /\ (tail \/ kept[mant_dig] = 1)
        inc    == IncBits(kept)
    IN  IF ~up THEN [zero |-> FALSE, neg |-> neg, bits |-> kept, exp |-> exp]
        ELSE IF Len(inc) > mant_dig
        THEN [zero |-> FALSE, neg |-> neg,
              bits |-> SubSeq(inc, 1, mant_dig), exp |-> exp + 1]
        ELSE [zero |-> FALSE, neg |-> neg, bits |-> inc, exp |-> exp]

FloatZero == [zero |-> TRUE, neg |-> FALSE, bits |-> << >>, exp |-> 0]

\* smallest k with a * 2^k >= d, for 0 < a < d
RECURSIVE ShiftsToReach(_, _)
ShiftsToReach(a, d) == IF a >= d THEN 0 ELSE 1 + ShiftsToReach(2 * a, d)

\* m / float(d) for integers m and d > 0 that floats hold exactly
FloatDiv(m, d) ==
    LET a    == IF m < 0 THEN -m ELSE m
        e    == IF a >= d THEN Len(BinDigits(a \div d)) - 1
                ELSE -ShiftsToReach(a, d)
        num  == IF e >= 0 THEN a ELSE a * Pow2(-e)
        den  == IF e >= 0 THEN d * Pow2(e) ELSE d
    IN  IF m = 0 THEN FloatZero
        ELSE RoundNearestEven(m < 0,
                              << 1 >> \o DivBits(num - den, den, mant_dig),
                              e,
                              DivRem(num - den, den, mant_dig) # 0)

\* the bit string of s * k, for a 53-bit string s and a small integer k >= 1
MulBits(s, k) ==
    LET n  == Len(s)
        lo == BitsToInt(SubSeq(s, n - limb + 1, n))
        mi == BitsToInt(SubSeq(s, n - 2 * limb + 1, n - limb))
        hi == BitsToInt(SubSeq(s, 1, n - 2 * limb))
        p0 == lo * k
        p1 == mi * k + (p0 \div Pow2(limb))
        p2 == hi * k + (p1 \div Pow2(limb))
    IN  BinDigits(p2) \o FixedBits(p1 % Pow2(limb), limb)
                      \o FixedBits(p0 % Pow2(limb), limb)

\* x * float(k) for a float x and an integer k >= 1 that floats hold exactly
FloatMulInt(x, k) ==
    LET p == MulBits(x.bits, k)
    IN  IF x.zero THEN FloatZero
        ELSE RoundNearestEven(x.neg, p, x.exp + (Len(p) - mant_dig), FALSE)

\* int(x): truncation towards zero
FloatTrunc(x) ==
    LET whole == IF x.zero \/ x.exp < 0 THEN 0
                 ELSE BitsToInt(SubSeq(x.bits, 1, Min(x.exp + 1, mant_dig)))
    IN  IF x.neg THEN -whole ELSE whole

\* mel_processor.py get_frame_count / utils.py AudDataset.__init__:
\* int((n_mel_frames - 16) / 80.0 * float(fps)) + 2
get_frame_count(n_mel_frames, fps) ==
    FloatTrunc(FloatMulInt(FloatDiv(n_mel_frames - 16, 80), fps)) + 2

(***************************************************************************)
(* The spectrogram (utils.melspectrogram, MelSpectrogramProcessor).  A mel *)
(* amplitude is given by its level in dB, a normalised value in            *)
(* hundredths.                                                             *)
(***************************************************************************)
n_fft == 800
hop_length == 200
win_length == 800
n_mels == 80
ref_level_db == 20
min_level_db == -100
max_abs_value == 4

\* variant: librosa.stft(..., center=False)
StftFrames_uncentered(len) == 1 + ((len - n_fft) \div hop_length)

\* librosa.stft(y, n_fft=800, hop_length=200, win_length=800): center=True
\* by default, the signal is padded by n_fft // 2 samples on both sides and
\* one column is produced per hop
StftFrames(len) == 1 + (((len + 2 * (n_fft \div 2)) - n_fft) \div hop_length)

\* 20 * log10(max(min_level, x)), min_level = 10^-5, for x of level dB
amp_to_db(level) == Max(min_level_db, level)

\* np.clip((2 * 4.) * ((S - -100) / (--100)) - 4., -4., 4.), in hundredths
normalize(S) ==
    LET normalized == ((2 * max_abs_value) * (S - min_level_db) * 100) \div (-min_level_db)
                      - max_abs_value * 100
    IN  Max(-max_abs_value * 100, Min(max_abs_value * 100, normalized))

\* melspectrogram(wav): shape and the value of a cell of amplitude level dB
melspectrogram(len, level) ==
    [rows  |-> n_mels,
     cols  |-> StftFrames(len),
     value |-> normalize(amp_to_db(level) - ref_level_db)]

(***************************************************************************)
(* Compositing (frame_generation_pipeline/image_processor.py).  An image   *)
(* is a sequence of rows of pixels; coordinates are 0-based as in numpy.   *)
(***************************************************************************)
GenPixel == 255        \* a pixel of the resized canvas

\* the full frame handed in: every pixel different, so that a misplaced
\* pixel shows
TemplateFrame(H, W) == [r \in 1..H |-> [c \in 1..W |-> 10 * r + c]]

ParsingKinds == {"keep", "replace", "checker"}

\* (crop_parsing == [0,0,255]).all(axis=2) | (crop_parsing == [255,255,255]).all(axis=2)
\* at row r, column c (1-based) of the parsing image
parsing_mask(kind, r, c) ==
    kind = "keep" \/ (kind = "checker" /\ (r + c) % 2 = 0)

\* cv2.resize(canvas, (w, h)): an h x w image
resize(h, w) == [r \in 1..h |-> [c \in 1..w |-> GenPixel]]

\* numpy: target[ymin:ymax, xmin:xmax] = value, value of shape (h, w, 3)
\* broadcast to the slice; ValueError when the shapes do not broadcast
SliceRows(img, ymin, ymax) == PySliceLen(Len(img), ymin, ymax)
SliceCols(img, xmin, xmax) ==
    IF Len(img) = 0 THEN 0 ELSE PySliceLen(Len(img[1]), xmin, xmax)

Broadcasts(h, w, R, C) == (h = R \/ h = 1) /\ (w = C \/ w = 1)

AssignRegion(img, xmin, ymin, xmax, ymax, value) ==
    LET r0 == PyNorm(Len(img), ymin)
        r1 == PyNorm(Len(img), ymax)
        c0 == PyNorm(Len(img[1]), xmin)
        c1 == PyNorm(Len(img[1]), xmax)
    IN  [r \in 1..Len(img) |->
          [c \in 1..Len(img[1]) |->
             IF r0 < r /\ r <= r1 /\ c0 < c /\ c <= c1
             THEN value[IF Len(value) = 1 THEN 1 ELSE r - r0]
                       [IF Len(value[1]) = 1 THEN 1 ELSE c - c0]
             ELSE img[r][c]]]

\* variant: the paste is done on full_frame itself, without the copy
paste_generated_region_inplace(full_frame, xmin, ymin, xmax, ymax, h, w) ==
    LET R == SliceRows(full_frame, ymin, ymax)
        C == SliceCols(full_frame, xmin, xmax)
    IN  IF h <= 0 \/ w <= 0 \/ ~Broadcasts(h, w, R, C)
        THEN [raised |-> TRUE, ret |-> << >>, arg |-> full_frame]
        ELSE [raised |-> FALSE,
              ret |-> AssignRegion(full_frame, xmin, ymin, xmax, ymax, resize(h, w)),
              arg |-> AssignRegion(full_frame, xmin, ymin, xmax, ymax, resize(h, w))]

\* ImageProcessor.paste_generated_region: ret is the frame returned, arg
\* the caller's full_frame after the call
paste_generated_region(full_frame, xmin, ymin, xmax, ymax, h, w) ==
    LET R == SliceRows(full_frame, ymin, ymax)
        C == SliceCols(full_frame, xmin, xmax)
    IN  IF h <= 0 \/ w <= 0 \/ ~Broadcasts(h, w, R, C)
        THEN [raised |-> TRUE, ret |-> << >>, arg |-> full_frame]
        ELSE [raised |-> FALSE,
              ret |-> AssignRegion(full_frame, xmin, ymin, xmax, ymax, resize(h, w)),
              arg |-> full_frame]

\* ImageProcessor.process_frame_with_parsing with a parsing image:
\* resized[parsing_mask] = original_crop[parsing_mask] needs a mask of the
\* shape of resized (IndexError otherwise)
process_frame_with_parsing(full_frame, xmin, ymin, xmax, ymax, h, w, kind) ==
    LET R  == SliceRows(full_frame, ymin, ymax)
        C  == SliceCols(full_frame, xmin, xmax)
        r0 == PyNorm(Len(full_frame), ymin)
        c0 == PyNorm(Len(full_frame[1]), xmin)
        resized == [r \in 1..h |-> [c \in 1..w |->
                      IF parsing_mask(kind, r0 + r, c0 + c)
                      THEN full_frame[r0 + r][c0 + c]
                      ELSE resize(h, w)[r][c]]]
    IN  IF h <= 0 \/ w <= 0 \/ h # R \/ w # C
        THEN [raised |-> TRUE, ret |-> << >>, arg |-> full_frame]
        ELSE [raised |-> FALSE,
              ret |-> AssignRegion(full_frame, xmin, ymin, xmax, ymax, resized),
              arg |-> full_frame]

(***************************************************************************)
(* Crop geometry.  A landmark file is kept as the values the session reads *)
(* from it: the number of points, x of points 1 and 31, y of point 52.     *)
(* Landmarks are points on the template image, whose side is ImgSide.      *)
(***************************************************************************)
ImgSide == MaxImg + 1

Landmarks(n, x1, y52, x31) == [n |-> n, x1 |-> x1, y52 |-> y52, x31 |-> x31]

ValidLandmarks == Landmarks(53, 0, 0, MaxImg)

\* files without point 1, 31 or 52, and faces of zero or negative width
ShortLandmarks == { Landmarks(1, 0, 0, 0), Landmarks(31, 0, 0, 0),
                    Landmarks(52, 0, 0, MaxImg) }
NarrowLandmarks == { Landmarks(53, 1, 0, 1), Landmarks(53, 2, 0, 1) }

\* lms[1][0], lms[52][1], lms[31][0]: IndexError on a file too short
LandmarkIndexError(lms) == lms.n <= 1 \/ lms.n <= 52 \/ lms.n <= 31

\* xmin, ymin, xmax, ymax = ymin + (xmax - xmin)
get_crop_region(lms) ==
    [xmin |-> lms.x1, ymin |-> lms.y52, xmax |-> lms.x31,
     ymax |-> lms.y52 + (lms.x31 - lms.x1)]

\* crop_img = img[ymin:ymax, xmin:xmax]; h, w = crop_img.shape[:2]
crop_shape(c) ==
    [h |-> PySliceLen(ImgSide, c.ymin, c.ymax),
     w |-> PySliceLen(ImgSide, c.xmin, c.xmax)]

\* variant: only the height of the crop is looked at
ResizeRaises_rows(c) == crop_shape(c).h = 0

\* cv2.resize(crop_img, (328, 328)) raises cv2.error on an empty image
ResizeRaises(c) == crop_shape(c).h = 0 \/ crop_shape(c).w = 0

\* ModelService: the template image and its crop, shared by every session
SharedTemplates == [img |-> TemplateFrame(ImgSide, ImgSide),
                    crop_coords |-> get_crop_region(ValidLandmarks)]

(***************************************************************************)
(* State of one session                                                    *)
(***************************************************************************)
VARIABLES
    entry,                 \* "text" | "audio" | "idle": which generator method runs
    n_source,              \* len(self._source_frames), 0 when none were loaded
    mel_rows,              \* mel_tensor.shape[0] of the utterance
    source_landmarks,      \* self._source_landmarks, one entry per source frame
    crop_coords,           \* self.models.crop_coords of the single template
    audio_duration,        \* the duration parameter, in tenths of a second
    pc,                    \* position of the generator
    num_frames,
    frame_idx,
    audio_features_cache,  \* frame index whose mel window each slot embeds
    retry_count,
    i, chunk_end,          \* the running embedding batch
    img_idx, step_stride,  \* head-motion cursor
    out,                   \* items handed to the consumer
    error,                 \* exception that left the generator, "none" otherwise
    stopped,               \* the consumer has stopped iterating
    embed_calls, gen_calls,\* calls made to the two networks
    tts_calls, mel_calls,  \* speech synthesis / spectrogram computations started
    elapsed, slept,        \* pacing of the last emitted frame (ms)
    audio_feat,            \* context window last handed to the generator
    call,                  \* last pure-helper invocation (helper specification)
    sessions,              \* the sessions that run side by side (concurrent specification)
    templates,             \* the ModelService they share
    now,                   \* the wall clock, in ticks
    debug_enabled,         \* settings.debug.enabled and settings.debug.save_frames
    frames_dir             \* settings.debug.frames_dir: the files and their writers

vars == << entry, n_source, mel_rows, source_landmarks, crop_coords,
           audio_duration, pc, num_frames, frame_idx,
           audio_features_cache, retry_count, i, chunk_end, img_idx,
           step_stride, out, error, stopped, embed_calls, gen_calls,
           tts_calls, mel_calls, elapsed, slept, audio_feat, call,
           sessions, templates, now, debug_enabled, frames_dir >>

debug == << now, debug_enabled, frames_dir >>
conc == << sessions, templates, debug >>
inputs == << entry, n_source, mel_rows, source_landmarks, crop_coords,
            audio_duration >>
nets == << embed_calls, gen_calls, tts_calls, mel_calls >>

MelLens == (1..MaxShortMel) \cup { 16 + step_size * j : j \in 0..MaxMelSteps }
ProcTimes == { ProcStep * k : k \in 0..MaxProcSteps }

Terminal == {"done", "failed", "returned", "raised", "cancelled"}
Suspended == {"created", "yield_static", "yield_frame", "yield_idle", "yield_fallback"}

\* Strategy chosen at lines 658 / 881 / 1085 of the service api.py builds,
\* EnhancedFrameGenerationService: head motion when source frames were
\* loaded, otherwise the methods of the base class (static template).
HeadMotion == n_source > 0

\* durations a client passes: negative, none (the default 0.0), two seconds
Durations == {-10, 0, 20}

\* a rate as the fraction num / den
Rate(num, den) == [num |-> num, den |-> den]
RateLess(a, b) == a.num * b.den < b.num * a.den

\* variant: only the lower limit is applied
calculate_adjusted_fps_floor(rows, duration) ==
    IF duration <= 0
    THEN Rate(fps_default, 1)
    ELSE LET estimated_frames ==
                 Max(1, ((rows - context_size) \div step_size) + 1)
             adjusted_fps == Rate(estimated_frames * 1000, duration * 98)
         IN  IF RateLess(Rate(15, 1), adjusted_fps) THEN adjusted_fps
             ELSE Rate(15, 1)

\* _calculate_adjusted_fps(mel_tensor, audio_duration):
\* estimated_frames / (audio_duration * 0.98), then max(15, min(30, .))
calculate_adjusted_fps(rows, duration) ==
    IF duration <= 0
    THEN Rate(fps_default, 1)
    ELSE LET estimated_frames ==
                 Max(1, ((rows - context_size) \div step_size) + 1)
             adjusted_fps == Rate(estimated_frames * 1000, duration * 98)
             capped == IF RateLess(adjusted_fps, Rate(30, 1))
                       THEN adjusted_fps ELSE Rate(30, 1)
         IN  IF RateLess(Rate(15, 1), capped) THEN capped ELSE Rate(15, 1)

\* fps_target of the running method: generate_frames computes it, the
\* audio method uses 25 and the idle animation 15
fps_target ==
    IF entry = "idle" THEN Rate(15, 1)
    ELSE IF entry = "audio" THEN Rate(fps_default, 1)
    ELSE calculate_adjusted_fps(mel_rows, audio_duration)

\* interval between emissions, 1.0 / fps_target, in ms
frame_time == (1000 * fps_target.den) \div fps_target.num

NoCall == [fn |-> "none"]

\* items handed to the consumer: the placeholder, or generated frame idx
\* composited on source frame template (-1: the single template image)
StaticItem == [kind |-> "static", idx |-> -1, template |-> -1]
FrameItem(k, t) == [kind |-> "frame", idx |-> k, template |-> t]

\* the clock at its origin, debug output switched off (the default of
\* settings.debug), no file in the frames directory
DebugOff ==
    /\ now = 0
    /\ debug_enabled = FALSE
    /\ frames_dir = {}

\* the session's bookkeeping before its first step
Created ==
    /\ pc = "created"
    /\ num_frames = 0
    /\ frame_idx = 0
    /\ audio_features_cache = << >>
    /\ retry_count = 0
    /\ i = 0
    /\ chunk_end = 0
    /\ img_idx = 0
    /\ step_stride = 0
    /\ out = << >>
    /\ error = "none"
    /\ stopped = FALSE
    /\ embed_calls = 0
    /\ gen_calls = 0
    /\ tts_calls = 0
    /\ mel_calls = 0
    /\ elapsed = 0
    /\ slept = 0
    /\ audio_feat = << >>
    /\ call = NoCall


\* sessions on landmark files that satisfy the geometry contract, started
\* without a duration
Init ==
    /\ entry \in {"text", "audio", "idle"}
    /\ n_source \in 0..MaxTemplates
    /\ mel_rows \in MelLens
    /\ (entry = "idle" => mel_rows = 16)
    /\ audio_duration = 0
    /\ source_landmarks = [k \in 1..n_source |-> ValidLandmarks]
    /\ crop_coords = get_crop_region(ValidLandmarks)
    /\ Created
    /\ sessions = << >>
    /\ templates = SharedTemplates
    /\ DebugOff

\* the same sessions on any landmark files and with any duration
InputInit ==
    /\ entry \in {"text", "audio", "idle"}
    /\ n_source \in 0..MaxTemplates
    /\ mel_rows \in MelLens
    /\ (entry = "idle" => mel_rows = 16)
    \* only /generate takes a duration; the other endpoints pass none
    /\ audio_duration \in Durations
    /\ (entry # "text" => audio_duration = 0)
    \* at most one source frame has a broken landmark file; the geometry is
    \* varied where the session reads it (speech with source frames reads
    \* source_landmarks, speech without reads crop_coords, idle reads none)
    /\ \E bad \in 0..n_source :
       \E lms \in ShortLandmarks \cup NarrowLandmarks :
          /\ (entry = "idle" => bad = 0)
          /\ source_landmarks =
                [k \in 1..n_source |-> IF k = bad THEN lms ELSE ValidLandmarks]
    \* ModelService() computes crop_coords at import time: a template file
    \* too short ends the server before any session
    /\ \E lms \in {ValidLandmarks} \cup NarrowLandmarks :
          /\ ((entry = "idle" \/ n_source > 0) => lms = ValidLandmarks)
          /\ crop_coords = get_crop_region(lms)
    /\ Created
    /\ sessions = << >>
    /\ templates = SharedTemplates
    /\ DebugOff

(***************************************************************************)
(* The consumer: api.py stream_generator, "async for frame in ..."         *)
(***************************************************************************)

\* variant: a late frame makes the loop skip one index
NextFrameIdx_skip(k) == k + 2

\* code that runs when the generator is resumed after "yield <frame>":
\* frame_idx += 1 (generator.py 341 / 853)
NextFrameIdx(k) == k + 1

\* __anext__: start the generator, or resume it behind the yield it waits at
ConsumerNext ==
    /\ pc \in Suspended
    /\ \/ /\ pc = "created"
          /\ pc' = "start"
          /\ UNCHANGED frame_idx
       \/ /\ pc = "yield_static"
          /\ pc' = IF entry = "text" THEN "tts" ELSE "mel"
          /\ UNCHANGED frame_idx
       \/ /\ pc = "yield_frame"
          /\ frame_idx' = NextFrameIdx(frame_idx)
          /\ pc' = "loop"
       \/ /\ pc = "yield_idle"
          /\ frame_idx' = NextFrameIdx(frame_idx)
          /\ pc' = "idle_loop"
       \/ /\ pc = "yield_fallback"
          /\ pc' = "returned"
          /\ UNCHANGED frame_idx
    /\ UNCHANGED << inputs, conc, num_frames, audio_features_cache, retry_count, i,
                    chunk_end, img_idx, step_stride, out, error, embed_calls,
                    gen_calls, tts_calls, mel_calls, elapsed, slept, audio_feat, stopped, call >>

\* variant: the generator survives the close and runs on behind its yield
ConsumerStop_resumes ==
    /\ pc \in Suspended
    /\ stopped' = TRUE
    /\ pc' = IF pc = "yield_frame" THEN "loop" ELSE "cancelled"
    /\ frame_idx' = IF pc = "yield_frame" THEN frame_idx + 1 ELSE frame_idx
    /\ UNCHANGED << inputs, conc, num_frames, audio_features_cache,
                    retry_count, i, chunk_end, img_idx, step_stride, out,
                    error, embed_calls, gen_calls, tts_calls, mel_calls,
                    elapsed, slept, audio_feat, call >>

\* the consumer stops iterating: the generator is closed at its yield
\* (GeneratorExit is not an Exception, so no handler of the generator runs)
ConsumerStop ==
    /\ pc \in Suspended
    /\ pc' = "cancelled"
    /\ stopped' = TRUE
    /\ UNCHANGED << inputs, conc, num_frames, frame_idx, audio_features_cache,
                    retry_count, i, chunk_end, img_idx, step_stride, out,
                    error, embed_calls, gen_calls, tts_calls, mel_calls,
                    elapsed, slept, audio_feat, call >>

(***************************************************************************)
(* INIT phase of a speech session                                          *)
(***************************************************************************)

\* variant: the placeholder is not handed out before synthesis starts
StaticFrame_late ==
    /\ pc = "start"
    /\ entry \in {"text", "audio"}
    /\ pc' = IF entry = "text" THEN "tts" ELSE "mel"
    /\ UNCHANGED << inputs, conc, out, error, num_frames, frame_idx,
                    audio_features_cache, retry_count, i, chunk_end, img_idx,
                    step_stride, embed_calls, gen_calls, tts_calls, mel_calls,
                    elapsed, slept, audio_feat, stopped, call >>

\* "yield await self.generate_static_frame()", ahead of the try block
StaticFrame ==
    /\ pc = "start"
    /\ entry \in {"text", "audio"}
    /\ pc' = "yield_static"
    /\ out' = Append(out, StaticItem)
    /\ UNCHANGED << inputs, conc, error, num_frames, frame_idx, audio_features_cache,
                    retry_count, i, chunk_end, img_idx, step_stride,
                    embed_calls, gen_calls, tts_calls, mel_calls, elapsed,
                    slept, audio_feat, stopped, call >>

\* waveform_bytes = self.tts.synthesize(text); empty result -> return
Synthesize ==
    /\ pc = "tts"
    /\ tts_calls' = tts_calls + 1
    /\ \E waveform_bytes \in {"pcm", "empty"} :
          pc' = IF waveform_bytes = "empty" THEN "returned" ELSE "mel"
    /\ UNCHANGED << inputs, conc, num_frames, frame_idx, audio_features_cache,
                    retry_count, i, chunk_end, img_idx, step_stride, out,
                    error, embed_calls, gen_calls, mel_calls, elapsed, slept,
                    audio_feat, stopped, call >>

\* np.frombuffer (ValueError on a buffer of odd size), on the static path
\* _preprocess_image (cv2.error on an empty crop), melspectrogram,
\* fps / frame_time, num_frames, and the set-up of the first batch
Melspectrogram ==
    /\ pc = "mel"
    /\ mel_calls' = mel_calls + 1
    /\ \E valid \in BOOLEAN :
          IF valid /\ ~HeadMotion /\ ResizeRaises(crop_coords)
          THEN /\ pc' = "raised"
               /\ error' = "cv2.error"
               /\ UNCHANGED << num_frames, chunk_end, i, frame_idx,
                               audio_features_cache >>
          ELSE IF valid
          THEN /\ num_frames' = NumFrames(mel_rows)
               /\ chunk_end' = Min(chunk_size, NumFrames(mel_rows))
               /\ i' = 0
               /\ frame_idx' = 0
               /\ audio_features_cache' = << >>
               /\ pc' = "chunk0"
               /\ UNCHANGED error
          ELSE /\ pc' = "raised"
               /\ error' = "ValueError"
               /\ UNCHANGED << num_frames, chunk_end, i, frame_idx,
                               audio_features_cache >>
    /\ UNCHANGED << inputs, conc, retry_count, img_idx, step_stride, out,
                    embed_calls, gen_calls, tts_calls, elapsed, slept, audio_feat, stopped, call >>

(***************************************************************************)
(* The embedding batches                                                   *)
(***************************************************************************)

\* audio_feature = model(mel_window): the call is made ...
EmbedCall ==
    /\ pc \in {"chunk0", "chunk"}
    /\ i < chunk_end
    /\ pc' = IF pc = "chunk0" THEN "chunk0_wait" ELSE "chunk_wait"
    /\ embed_calls' = embed_calls + 1
    /\ UNCHANGED << inputs, conc, num_frames, frame_idx, audio_features_cache,
                    retry_count, i, chunk_end, img_idx, step_stride, out,
                    error, gen_calls, tts_calls, mel_calls, elapsed, slept,
                    audio_feat, stopped, call >>

\* utils.py AudioEncoder on a window of w mel rows: width left after the
\* strided convolutions (stride 3, then 2, padding 1) and the final 3x3
\* convolution without padding; the network only runs when that is 1.
AudioEncoderOutWidth(w) == (((((w - 1) \div 3) + 1) - 1) \div 2) + 1 - 2

EncoderAccepts(w) == w >= 1 /\ AudioEncoderOutWidth(w) = 1

\* ... and returns: audio_features_cache.append(...)
EmbedReturn ==
    /\ pc \in {"chunk0_wait", "chunk_wait"}
    /\ EncoderAccepts(MelWindowRows(i, mel_rows))
    /\ audio_features_cache' = Append(audio_features_cache, i)
    /\ i' = i + 1
    /\ pc' = IF pc = "chunk0_wait" THEN "chunk0" ELSE "chunk"
    /\ UNCHANGED << inputs, conc, num_frames, frame_idx, retry_count, chunk_end,
                    img_idx, step_stride, out, error, embed_calls, gen_calls,
                    tts_calls, mel_calls, elapsed, slept, audio_feat, stopped, call >>

\* ... or raises: "except Exception: logging.error(...); raise"
EmbedRaise ==
    /\ pc \in {"chunk0_wait", "chunk_wait"}
    /\ pc' = "raised"
    /\ error' = "EmbedError"
    /\ UNCHANGED << inputs, conc, num_frames, frame_idx, audio_features_cache,
                    retry_count, i, chunk_end, img_idx, step_stride, out,
                    embed_calls, gen_calls, tts_calls, mel_calls, elapsed,
                    slept, audio_feat, stopped, call >>

\* after the first batch: [first_frame] * 8 + audio_features_cache, and the
\* head-motion variables (set only by EnhancedFrameGenerationService.generate_frames)
PadCache ==
    /\ pc = "chunk0"
    /\ i = chunk_end
    /\ audio_features_cache' =
          IF audio_features_cache # << >>
          THEN [j \in 1..pad_frames |-> audio_features_cache[1]] \o audio_features_cache
          ELSE audio_features_cache
    /\ step_stride' = 0
    /\ img_idx' = 0
    /\ retry_count' = 0
    /\ pc' = "loop"
    /\ UNCHANGED << inputs, conc, num_frames, frame_idx, i, chunk_end, out, error,
                    embed_calls, gen_calls, tts_calls, mel_calls, elapsed,
                    slept, audio_feat, stopped, call >>

(***************************************************************************)
(* STREAMING phase: "while frame_idx < num_frames"                         *)
(***************************************************************************)

\* next_chunk_start = len(audio_features_cache) - 8
NextChunkStart(cache) == Len(cache) - pad_frames

\* need_more_features = next_chunk_start + 8 < min(frame_idx + 10, num_frames)
NeedMoreFeatures(cache, k, n) ==
    NextChunkStart(cache) + 8 < Min(k + look_ahead, n)

\* chunk_start = next_chunk_start + 8
ChunkStart(cache) == NextChunkStart(cache) + 8

\* variant: the test forgets the padding slots
ContextMissing_unpadded(k, cache) == k >= Len(cache)

\* "if frame_idx >= len(audio_features_cache) - 8": context not available
ContextMissing(k, cache) == k >= Len(cache) - pad_frames

\* loop test and the decision to extend the cache
LoopHead ==
    /\ pc = "loop"
    /\ IF frame_idx < num_frames
       THEN IF NeedMoreFeatures(audio_features_cache, frame_idx, num_frames)
            THEN /\ i' = ChunkStart(audio_features_cache)
                 /\ chunk_end' = Min(ChunkStart(audio_features_cache) + chunk_size,
                                     num_frames)
                 /\ pc' = "chunk"
            ELSE /\ pc' = "check"
                 /\ UNCHANGED << i, chunk_end >>
       ELSE /\ pc' = "done"
            /\ UNCHANGED << i, chunk_end >>
    /\ UNCHANGED << inputs, conc, num_frames, frame_idx, audio_features_cache,
                    retry_count, img_idx, step_stride, out, error,
                    embed_calls, gen_calls, tts_calls, mel_calls, elapsed,
                    slept, audio_feat, stopped, call >>

\* the batch "for i in range(chunk_start, chunk_end)" is exhausted
ChunkDone ==
    /\ pc = "chunk"
    /\ i >= chunk_end
    /\ pc' = "check"
    /\ UNCHANGED << inputs, conc, num_frames, frame_idx, audio_features_cache,
                    retry_count, i, chunk_end, img_idx, step_stride, out,
                    error, embed_calls, gen_calls, tts_calls, mel_calls,
                    elapsed, slept, audio_feat, stopped, call >>

\* head-motion logic: the two tests on img_idx, with len_img = N - 1
StepStride(idx, stride, len_img) ==
    LET s1 == IF idx > len_img - 1 THEN -1 ELSE stride
    IN  IF idx < 1 THEN 1 ELSE s1

\* variant: the head-motion lines stand in front of the readiness check,
\* so a retry iteration moves the cursor as well
CheckReady_cursor_first ==
    /\ pc = "check"
    /\ IF ContextMissing(frame_idx, audio_features_cache)
       THEN /\ retry_count' = retry_count + 1
            /\ pc' = IF retry_count + 1 >= max_retries
                     THEN "failed"
                     ELSE "retry_sleep"
            /\ IF HeadMotion /\ entry = "text"
               THEN LET stride == StepStride(img_idx, step_stride, n_source - 1)
                    IN  /\ step_stride' = stride
                        /\ img_idx' = (img_idx + stride) % n_source
               ELSE UNCHANGED << img_idx, step_stride >>
       ELSE /\ retry_count' = 0
            /\ pc' = "render"
            /\ UNCHANGED << img_idx, step_stride >>
    /\ UNCHANGED << inputs, conc, num_frames, frame_idx, audio_features_cache, i,
                    chunk_end, out, error, embed_calls,
                    gen_calls, tts_calls, mel_calls, elapsed, slept,
                    audio_feat, stopped, call >>

\* readiness check with the bounded retry counter
CheckReady ==
    /\ pc = "check"
    /\ IF ContextMissing(frame_idx, audio_features_cache)
       THEN /\ retry_count' = retry_count + 1
            /\ pc' = IF retry_count + 1 >= max_retries
                     THEN "failed"          \* logging.warning(...); break
                     ELSE "retry_sleep"     \* await asyncio.sleep(0.05); continue
       ELSE /\ retry_count' = 0
            /\ pc' = "render"
    /\ UNCHANGED << inputs, conc, num_frames, frame_idx, audio_features_cache, i,
                    chunk_end, img_idx, step_stride, out, error, embed_calls,
                    gen_calls, tts_calls, mel_calls, elapsed, slept,
                    audio_feat, stopped, call >>

\* variant: the retry counter is reset after every sleep
RetryWake_reset ==
    /\ pc = "retry_sleep"
    /\ pc' = "loop"
    /\ retry_count' = 0
    /\ UNCHANGED << inputs, conc, num_frames, frame_idx, audio_features_cache,
                    i, chunk_end, img_idx, step_stride, out,
                    error, embed_calls, gen_calls, tts_calls, mel_calls,
                    elapsed, slept, audio_feat, stopped, call >>

\* asyncio.sleep(0.05) is over: continue
RetryWake ==
    /\ pc = "retry_sleep"
    /\ pc' = "loop"
    /\ UNCHANGED << inputs, conc, num_frames, frame_idx, audio_features_cache,
                    retry_count, i, chunk_end, img_idx, step_stride, out,
                    error, embed_calls, gen_calls, tts_calls, mel_calls,
                    elapsed, slept, audio_feat, stopped, call >>

\* One rendering up to the call of the generator network: cursor, source
\* frame, crop, context window, reshape, self.models.net(...).
\*  - generate_frames_from_audio (both classes) reads img_idx / len_img
\*    without ever assigning them: UnboundLocalError;
\*  - self._source_frames[img_idx] raises IndexError past the last frame;
\*  - lms[1], lms[52], lms[31] raise IndexError on a short landmark file;
\*  - cv2.resize raises cv2.error on an empty crop;
\*  - reshape(1, 32, 16, 16) needs exactly 16 context rows.
Render ==
    /\ pc = "render"
    /\ LET stride == StepStride(img_idx, step_stride, n_source - 1)
           idx    == img_idx + stride
           ctx    == get_audio_features(audio_features_cache, frame_idx)
       IN  IF entry = "audio"
           THEN /\ pc' = "raised"
                /\ error' = "UnboundLocalError"
                /\ UNCHANGED << img_idx, step_stride, audio_feat, gen_calls >>
           ELSE IF HeadMotion /\ idx >= n_source
           THEN /\ pc' = "raised"
                /\ error' = "IndexError"
                /\ img_idx' = idx
                /\ step_stride' = stride
                /\ UNCHANGED << audio_feat, gen_calls >>
           ELSE IF HeadMotion /\ LandmarkIndexError(source_landmarks[idx + 1])
           THEN /\ pc' = "raised"
                /\ error' = "IndexError"
                /\ img_idx' = idx
                /\ step_stride' = stride
                /\ UNCHANGED << audio_feat, gen_calls >>
           ELSE IF HeadMotion
                   /\ ResizeRaises(get_crop_region(source_landmarks[idx + 1]))
           THEN /\ pc' = "raised"
                /\ error' = "cv2.error"
                /\ img_idx' = idx
                /\ step_stride' = stride
                /\ UNCHANGED << audio_feat, gen_calls >>
           ELSE /\ IF HeadMotion
                   THEN img_idx' = idx /\ step_stride' = stride
                   ELSE UNCHANGED << img_idx, step_stride >>
                /\ audio_feat' = ctx
                /\ IF Len(ctx) = 16
                   THEN /\ pc' = "gen_wait"
                        /\ gen_calls' = gen_calls + 1
                        /\ UNCHANGED error
                   ELSE /\ pc' = "raised"
                        /\ error' = "RuntimeError"
                        /\ UNCHANGED gen_calls
    /\ UNCHANGED << inputs, conc, num_frames, frame_idx, audio_features_cache,
                    retry_count, i, chunk_end, out, embed_calls, tts_calls,
                    mel_calls, elapsed, slept, stopped, call >>

\* the generator network returns a prediction: composite and encode
GenReturn ==
    /\ pc = "gen_wait"
    /\ pc' = "pace"
    /\ UNCHANGED << inputs, conc, num_frames, frame_idx, audio_features_cache,
                    retry_count, i, chunk_end, img_idx, step_stride, out,
                    error, embed_calls, gen_calls, tts_calls, mel_calls,
                    elapsed, slept, audio_feat, stopped, call >>

\* variant: the exception is logged and swallowed, the sequence just ends
GenRaise_swallowed ==
    /\ pc = "gen_wait"
    /\ pc' = "returned"
    /\ error' = "GenError"
    /\ UNCHANGED << inputs, conc, num_frames, frame_idx, audio_features_cache,
                    retry_count, i, chunk_end, img_idx, step_stride, out,
                    embed_calls, gen_calls, tts_calls, mel_calls, elapsed,
                    slept, audio_feat, stopped, call >>

\* variant: the failed call is retried for the same frame
GenRaise_retried ==
    /\ pc = "gen_wait"
    /\ pc' = "render"
    /\ UNCHANGED << inputs, conc, num_frames, frame_idx, audio_features_cache,
                    retry_count, i, chunk_end, img_idx, step_stride, out,
                    error, embed_calls, gen_calls, tts_calls, mel_calls,
                    elapsed, slept, audio_feat, stopped, call >>

\* the generator network raises: logged and re-raised
GenRaise ==
    /\ pc = "gen_wait"
    /\ pc' = "raised"
    /\ error' = "GenError"
    /\ UNCHANGED << inputs, conc, num_frames, frame_idx, audio_features_cache,
                    retry_count, i, chunk_end, img_idx, step_stride, out,
                    embed_calls, gen_calls, tts_calls, mel_calls, elapsed,
                    slept, audio_feat, stopped, call >>

\* variant: last_frame_time = current_time, the clock value read before
\* the wait
LastFrameTimeStep_before_wait(e, s) == e

\* last_frame_time = time.time() behind the wait: the new value minus the
\* old one, elapsed = current_time - last_frame_time having been measured
\* from the old one
LastFrameTimeStep(e, s) == e + s

\* wait of the pacer: asyncio.sleep(frame_time - elapsed) when early
PaceSleep(e, interval) == IF e < interval THEN interval - e ELSE 0

\* pacing and "yield (b'--frame...')"
Pace ==
    /\ pc = "pace"
    /\ \E e \in ProcTimes :
          /\ elapsed' = e
          /\ slept' = PaceSleep(e, frame_time)
    /\ out' = Append(out, FrameItem(frame_idx,
                                    IF HeadMotion THEN img_idx ELSE -1))
    /\ pc' = "yield_frame"
    /\ UNCHANGED << inputs, conc, num_frames, frame_idx, audio_features_cache,
                    retry_count, i, chunk_end, img_idx, step_stride, error,
                    embed_calls, gen_calls, tts_calls, mel_calls, audio_feat,
                    stopped, call >>

(***************************************************************************)
(* Idle mode: generate_dynamic_avatar                                      *)
(***************************************************************************)

\* without source frames: one static frame, then return
IdleStart ==
    /\ pc = "start"
    /\ entry = "idle"
    /\ IF HeadMotion
       THEN /\ pc' = "idle_loop"
            /\ UNCHANGED out
       ELSE /\ pc' = "yield_fallback"
            /\ out' = Append(out, StaticItem)
    /\ step_stride' = 0
    /\ img_idx' = 0
    /\ frame_idx' = 0
    /\ UNCHANGED << inputs, conc, num_frames, audio_features_cache, retry_count, i,
                    chunk_end, error, embed_calls, gen_calls, tts_calls,
                    mel_calls, elapsed, slept, audio_feat, stopped, call >>

\* one turn of "while True": cursor, pacing, yield; an exception (IndexError
\* on a one-frame template set) is caught and answered with a static frame
IdleStep ==
    /\ pc = "idle_loop"
    /\ frame_idx < MaxIdleFrames
    /\ LET stride == StepStride(img_idx, step_stride, n_source - 1)
           idx    == img_idx + stride
       IN  /\ img_idx' = idx
           /\ step_stride' = stride
           /\ IF idx >= n_source
              THEN /\ out' = Append(out, StaticItem)
                   /\ pc' = "yield_fallback"
                   /\ UNCHANGED << elapsed, slept >>
              ELSE /\ \E e \in ProcTimes :
                         /\ elapsed' = e
                         /\ slept' = PaceSleep(e, frame_time)
                   /\ out' = Append(out, FrameItem(frame_idx, idx))
                   /\ pc' = "yield_idle"
    /\ UNCHANGED << inputs, conc, num_frames, frame_idx, audio_features_cache,
                    retry_count, i, chunk_end, error, embed_calls, gen_calls,
                    tts_calls, mel_calls, audio_feat, stopped, call >>

(***************************************************************************)
(* Specifications                                                          *)
(***************************************************************************)
Collaborator == EmbedReturn \/ EmbedRaise

Session ==
    \/ StaticFrame \/ Synthesize \/ Melspectrogram
    \/ EmbedCall \/ PadCache
    \/ LoopHead \/ ChunkDone \/ CheckReady \/ RetryWake
    \/ Render \/ GenReturn \/ GenRaise \/ Pace
    \/ IdleStart \/ IdleStep

Consumer == ConsumerNext \/ ConsumerStop

Next == Session \/ Collaborator \/ Consumer

Spec == Init /\ [][Next]_vars

\* any landmark files, any duration
InputSpec == InputInit /\ [][Next]_vars

\* every collaborator returns, the consumer keeps asking (or stops)
FairSpec == Init /\ [][Next]_vars /\ WF_vars(Next)

\* the embedding network may never return; everything else is scheduled
StallSpec == Init /\ [][Next]_vars /\ WF_vars(Session) /\ WF_vars(Consumer)

(***************************************************************************)
(* The pure helpers, applied to inputs drawn from bounded sets             *)
(***************************************************************************)
FpsSet == {15, 25, 30}

HelperInit ==
    /\ entry = "text"
    /\ n_source = 0
    /\ mel_rows = 16
    /\ source_landmarks = << >>
    /\ crop_coords = get_crop_region(ValidLandmarks)
    /\ audio_duration = 0
    /\ pc = "created"
    /\ num_frames = 0
    /\ frame_idx = 0
    /\ audio_features_cache = << >>
    /\ retry_count = 0
    /\ i = 0
    /\ chunk_end = 0
    /\ img_idx = 0
    /\ step_stride = 0
    /\ out = << >>
    /\ error = "none"
    /\ stopped = FALSE
    /\ embed_calls = 0
    /\ gen_calls = 0
    /\ tts_calls = 0
    /\ mel_calls = 0
    /\ elapsed = 0
    /\ slept = 0
    /\ audio_feat = << >>
    /\ call = NoCall
    /\ sessions = << >>
    /\ templates = SharedTemplates
    /\ DebugOff

session_vars == << inputs, conc, pc, num_frames, frame_idx, audio_features_cache,
                   retry_count, i, chunk_end, img_idx, step_stride, out,
                   error, stopped, nets, elapsed, slept, audio_feat >>

\* MelSpectrogramProcessor.crop_audio_window(mel_spec, frame_idx, fps)
CallCropAudioWindow ==
    /\ call = NoCall
    /\ \E n \in 1..MaxCropMel, f \in 0..MaxCropFrame, fps \in FpsSet :
          LET r == crop_audio_window(n, f, fps)
          IN  call' = [fn |-> "crop_audio_window", n |-> n, idx |-> f,
                       fps |-> fps, start |-> r.start, end |-> r.end,
                       rows |-> r.rows, raised |-> r.raised, window |-> << >>]
    /\ UNCHANGED session_vars

\* AudDataset.crop_audio_window(spec, start_frame)
CallAudDatasetCrop ==
    /\ call = NoCall
    /\ \E n \in 1..MaxCropMel, f \in 0..MaxCropFrame :
          LET r == AudDataset_crop_audio_window(n, f)
          IN  call' = [fn |-> "AudDataset.crop_audio_window", n |-> n,
                       idx |-> f, fps |-> 25, start |-> r.start,
                       end |-> r.end, rows |-> r.rows, raised |-> r.raised,
                       window |-> << >>]
    /\ UNCHANGED session_vars

\* utils.get_audio_features(features, index) on the rows 0 .. n-1
CallGetAudioFeatures ==
    /\ call = NoCall
    /\ \E n \in 1..MaxFeat :
       \E idx \in 0..(n - 1) :
          LET w == get_audio_features(Iota(n), idx)
          IN  call' = [fn |-> "get_audio_features", n |-> n, idx |-> idx,
                       fps |-> 25, start |-> 0, end |-> 0, rows |-> Len(w),
                       raised |-> FALSE, window |-> w]
    /\ UNCHANGED session_vars

\* AudioEncoderWrapper.get_audio_features_for_frame(all_features, frame_idx)
CallGetAudioFeaturesForFrame ==
    /\ call = NoCall
    /\ \E n \in 1..MaxFeat :
       \E idx \in 0..(n - 1) :
          LET w == get_audio_features_for_frame(Iota(n), idx)
          IN  call' = [fn |-> "get_audio_features_for_frame", n |-> n,
                       idx |-> idx, fps |-> 25, start |-> 0, end |-> 0,
                       rows |-> Len(w), raised |-> FALSE, window |-> w]
    /\ UNCHANGED session_vars

\* MelSpectrogramProcessor.get_frame_count(mel_spec, fps)
CallGetFrameCount ==
    /\ call = NoCall
    /\ \E n \in 1..MaxCountMel, fps \in FpsSet :
          call' = [fn |-> "get_frame_count", n |-> n, idx |-> 0, fps |-> fps,
                   start |-> 0, end |-> 0, rows |-> 0, raised |-> FALSE,
                   window |-> << >>, count |-> get_frame_count(n, fps)]
    /\ UNCHANGED session_vars

\* ImageProcessor.paste_generated_region(full_frame, generated_region,
\* crop_coords, original_crop_size)
CallPasteGeneratedRegion ==
    /\ call = NoCall
    /\ \E xmin \in 0..MaxImg, ymin \in 0..MaxImg,
          xmax \in 0..(MaxImg + 1), ymax \in 0..(MaxImg + 1),
          h \in 0..MaxImg, w \in 0..MaxImg :
          LET full_frame == TemplateFrame(MaxImg, MaxImg)
              res == paste_generated_region(full_frame, xmin, ymin, xmax, ymax, h, w)
          IN  call' = [fn |-> "paste_generated_region", frame |-> full_frame,
                       xmin |-> xmin, ymin |-> ymin, xmax |-> xmax,
                       ymax |-> ymax, h |-> h, w |-> w, parsing |-> "none",
                       raised |-> res.raised, ret |-> res.ret, arg |-> res.arg]
    /\ UNCHANGED session_vars

\* ImageProcessor.process_frame_with_parsing(full_frame, generated_region,
\* crop_coords, original_crop_size, parsing_image)
CallProcessFrameWithParsing ==
    /\ call = NoCall
    /\ \E xmin \in 0..MaxImg, ymin \in 0..MaxImg,
          xmax \in 0..(MaxImg + 1), ymax \in 0..(MaxImg + 1),
          h \in 0..MaxImg, w \in 0..MaxImg, kind \in ParsingKinds \cup {"none"} :
          LET full_frame == TemplateFrame(MaxImg, MaxImg)
              res == IF kind = "none"
                     THEN paste_generated_region(full_frame, xmin, ymin, xmax, ymax, h, w)
                     ELSE process_frame_with_parsing(full_frame, xmin, ymin,
                                                     xmax, ymax, h, w, kind)
          IN  call' = [fn |-> "process_frame_with_parsing", frame |-> full_frame,
                       xmin |-> xmin, ymin |-> ymin, xmax |-> xmax,
                       ymax |-> ymax, h |-> h, w |-> w, parsing |-> kind,
                       raised |-> res.raised, ret |-> res.ret, arg |-> res.arg]
    /\ UNCHANGED session_vars

\* The 328 x 328 canvas that is resized back to the crop, pixel by pixel
\* (0-based row r and column c); its inner region is [4:324, 4:324].
canvas_side == 328
inner_lo == 4
inner_hi == 324

InInner(r, c) == inner_lo <= r /\ r < inner_hi /\ inner_lo <= c /\ c < inner_hi

\* a pixel of the original crop resized to 328 x 328: neither black nor
\* a generated pixel
CropPixel(r, c) == 1 + ((7 * r + c) % 250)

\* generator.py: crop_img_out = crop_img.copy(); crop_img_out[4:324, 4:324] = pred
crop_img_out(r, c) == IF InInner(r, c) THEN GenPixel ELSE CropPixel(r, c)

\* image_processor.py: canvas = np.zeros((328, 328, 3));
\* canvas[4:324, 4:324] = generated_region
canvas(r, c) == IF InInner(r, c) THEN GenPixel ELSE 0

CanvasPaths == {"generate_frames", "paste_generated_region",
                "process_frame_with_parsing"}
CanvasCoords == {0, inner_lo - 1, inner_lo, canvas_side \div 2, inner_hi - 1,
                 inner_hi, canvas_side - 1}

\* the canvas a compositing path hands to cv2.resize, looked at in (r, c)
CallCanvas ==
    /\ call = NoCall
    /\ \E path \in CanvasPaths, r \in CanvasCoords, c \in CanvasCoords :
          call' = [fn |-> "canvas", path |-> path, r |-> r, c |-> c,
                   crop |-> CropPixel(r, c),
                   pixel |-> IF path = "generate_frames"
                             THEN crop_img_out(r, c) ELSE canvas(r, c)]
    /\ UNCHANGED session_vars

WavLens == { 50 * k : k \in 1..MaxWavSteps }
DbLevels == { 10 * j - 140 : j \in 0..MaxDbSteps }

\* utils.melspectrogram(wav) / MelSpectrogramProcessor.process_audio(wav)
CallMelspectrogram ==
    /\ call = NoCall
    /\ \E len \in WavLens, level \in DbLevels :
          LET mel == melspectrogram(len, level)
          IN  call' = [fn |-> "melspectrogram", n |-> len, level |-> level,
                       rows |-> mel.rows, cols |-> mel.cols,
                       value |-> mel.value, raised |-> FALSE]
    /\ UNCHANGED session_vars

HelperNext ==
    \/ CallCropAudioWindow
    \/ CallAudDatasetCrop
    \/ CallGetAudioFeatures
    \/ CallGetAudioFeaturesForFrame
    \/ CallGetFrameCount
    \/ CallPasteGeneratedRegion
    \/ CallProcessFrameWithParsing
    \/ CallMelspectrogram
    \/ CallCanvas

\* one helper invocation per behaviour
HelperSpec == HelperInit /\ [][HelperNext]_vars

(***************************************************************************)
(* Concurrent sessions.  Every request gets its own                        *)
(* EnhancedFrameGenerationService (api.py get_generator_service), whose    *)
(* generate_frames keeps its state in local variables; all of them hold    *)
(* the one ModelService.  A session is the record of those locals; its     *)
(* steps are the steps of the single session above, with the networks      *)
(* returning.  Steps of different sessions interleave freely, which        *)
(* includes every interleaving the event loop can produce.                 *)
(***************************************************************************)
MaxSessions == 2        \* sessions running side by side
MaxConcMelSteps == 1    \* their mel lengths 16 + 4*j, j in 0..MaxConcMelSteps
MaxConcTemplates == 3   \* source frames on disk, 0..MaxConcTemplates

SessionIds == 1..MaxSessions
ConcMelLens == { 16 + step_size * j : j \in 0..MaxConcMelSteps }

TicksPerSecond == 2     \* resolution of the modelled clock: half seconds
MaxClock == 3           \* last tick of the clock

\* datetime.datetime.now().strftime('%Y%m%d_%H%M%S'): the clock reading
\* down to the whole second
strftime(t) == t \div TicksPerSecond

\* session_id = f"text_{datetime.datetime.now().strftime('%Y%m%d_%H%M%S')}"
session_id(kind, t) == << kind, strftime(t) >>

\* session_id is a local of generate_frames, unbound before its first line
NoSessionId == << "unbound", -1 >>

\* _save_debug_frame: nothing unless debug output is enabled, otherwise
\* cv2.imwrite to "{session_id}_{frame_index:04d}.jpg", replacing a file
\* of that name; writer says whose frame the file holds
save_debug_frame(dir, enabled, id, frame_index, writer) ==
    IF ~enabled
    THEN dir
    ELSE LET frame_path == << id, frame_index >>
         IN  { f \in dir : f.path # frame_path }
               \cup { [path |-> frame_path, writer |-> writer] }

NewSession(rows, n) ==
    [mel_rows |-> rows, n_source |-> n, pc |-> "start", num_frames |-> 0,
     frame_idx |-> 0, img_idx |-> 0, step_stride |-> 0,
     audio_features_cache |-> << >>, i |-> 0, chunk_end |-> 0,
     retry_count |-> 0, frame |-> << >>, hist |-> << >>,
     session_id |-> NoSessionId]

\* what the session shows of itself after a step
Observed(st) == << st.frame_idx, st.img_idx, Len(st.audio_features_cache) >>

\* variant: the frame is composited on the shared template image itself
final_frame_shared(tpl) ==
    LET c == tpl.crop_coords
        f == AssignRegion(tpl.img, c.xmin, c.ymin, c.xmax, c.ymax,
                          resize(crop_shape(c).h, crop_shape(c).w))
    IN  [frame |-> f, tpl |-> [tpl EXCEPT !.img = f]]

\* final_frame = self.models.img.copy();
\* final_frame[ymin:ymax, xmin:xmax] = crop_img_out
final_frame(tpl) ==
    LET c == tpl.crop_coords
        f == AssignRegion(tpl.img, c.xmin, c.ymin, c.xmax, c.ymax,
                          resize(crop_shape(c).h, crop_shape(c).w))
    IN  [frame |-> f, tpl |-> tpl]

\* img = self._source_frames[img_idx].copy(); img[ymin:ymax, xmin:xmax] = ...
\* on the session's own source frame
source_frame(lms) ==
    LET c == get_crop_region(lms)
    IN  AssignRegion(TemplateFrame(ImgSide, ImgSide), c.xmin, c.ymin, c.xmax,
                     c.ymax, resize(crop_shape(c).h, crop_shape(c).w))

\* model(mel_window) on window i, appended to the cache
Embed(st) ==
    IF EncoderAccepts(MelWindowRows(st.i, st.mel_rows))
    THEN [st EXCEPT !.audio_features_cache = Append(@, st.i), !.i = @ + 1]
    ELSE [st EXCEPT !.pc = "raised"]

\* one step of generate_frames on the session st and the shared tpl
SessionStep(st, tpl) ==
    LET cache == st.audio_features_cache
        same(s) == [st |-> s, tpl |-> tpl]
    IN
    IF st.pc = "start"
    THEN \* generate_static_frame: img = self.models.img.copy()
         same([st EXCEPT !.pc = "mel", !.frame = tpl.img])
    ELSE IF st.pc = "mel"
    THEN IF st.n_source = 0 /\ ResizeRaises(tpl.crop_coords)
         THEN same([st EXCEPT !.pc = "raised"])
         ELSE same([st EXCEPT !.num_frames = NumFrames(st.mel_rows),
                              !.chunk_end = Min(chunk_size, NumFrames(st.mel_rows)),
                              !.i = 0, !.frame_idx = 0,
                              !.audio_features_cache = << >>,
                              !.pc = "chunk0"])
    ELSE IF st.pc = "chunk0"
    THEN IF st.i < st.chunk_end
         THEN same(Embed(st))
         ELSE same([st EXCEPT
                      !.audio_features_cache =
                          IF cache # << >>
                          THEN [j \in 1..pad_frames |-> cache[1]] \o cache
                          ELSE cache,
                      !.step_stride = 0, !.img_idx = 0, !.retry_count = 0,
                      !.pc = "loop"])
    ELSE IF st.pc = "loop"
    THEN IF st.frame_idx < st.num_frames
         THEN IF NeedMoreFeatures(cache, st.frame_idx, st.num_frames)
              THEN same([st EXCEPT !.i = ChunkStart(cache),
                                   !.chunk_end = Min(ChunkStart(cache) + chunk_size,
                                                     st.num_frames),
                                   !.pc = "chunk"])
              ELSE same([st EXCEPT !.pc = "check"])
         ELSE same([st EXCEPT !.pc = "done"])
    ELSE IF st.pc = "chunk"
    THEN IF st.i < st.chunk_end
         THEN same(Embed(st))
         ELSE same([st EXCEPT !.pc = "check"])
    ELSE IF st.pc = "check"
    THEN IF ContextMissing(st.frame_idx, cache)
         THEN same([st EXCEPT !.retry_count = @ + 1,
                              !.pc = IF st.retry_count + 1 >= max_retries
                                     THEN "failed" ELSE "loop"])
         ELSE same([st EXCEPT !.retry_count = 0, !.pc = "render"])
    ELSE IF st.pc = "render"
    THEN LET stride == StepStride(st.img_idx, st.step_stride, st.n_source - 1)
             idx    == st.img_idx + stride
             ctx    == get_audio_features(cache, st.frame_idx)
         IN  IF st.n_source > 0 /\ idx >= st.n_source
             THEN same([st EXCEPT !.img_idx = idx, !.step_stride = stride,
                                  !.pc = "raised"])
             ELSE IF Len(ctx) # 16
             THEN same([st EXCEPT !.pc = "raised"])
             ELSE IF st.n_source > 0
             THEN same([st EXCEPT !.img_idx = idx, !.step_stride = stride,
                                  !.frame = source_frame(ValidLandmarks),
                                  !.pc = "yield_frame"])
             ELSE [st  |-> [st EXCEPT !.frame = final_frame(tpl).frame,
                                      !.pc = "yield_frame"],
                   tpl |-> final_frame(tpl).tpl]
    ELSE \* resumed behind "yield": frame_idx += 1
         same([st EXCEPT !.frame_idx = NextFrameIdx(@), !.pc = "loop"])

\* the step, with what it shows appended to the session's history
RecordedStep(st, tpl) ==
    LET r == SessionStep(st, tpl)
    IN  [st  |-> [r.st EXCEPT !.hist = Append(@, Observed(r.st))],
         tpl |-> r.tpl]

\* requests served side by side read the same dataset directory
ConcInit ==
    /\ entry = "text"
    /\ n_source = 0
    /\ mel_rows = 16
    /\ source_landmarks = << >>
    /\ crop_coords = get_crop_region(ValidLandmarks)
    /\ audio_duration = 0
    /\ Created
    /\ templates = SharedTemplates
    /\ DebugOff
    /\ \E n \in 0..MaxConcTemplates :
          sessions \in [SessionIds -> { NewSession(rows, n) : rows \in ConcMelLens }]

\* the event loop runs session s for one step; the first step binds
\* session_id from the clock, a step that renders a frame saves it
ConcStep(s) ==
    /\ sessions[s].pc \notin Terminal
    /\ LET r  == RecordedStep(sessions[s], templates)
           st == IF sessions[s].pc = "start"
                 THEN [r.st EXCEPT !.session_id = session_id("text", now)]
                 ELSE r.st
       IN  /\ sessions' = [sessions EXCEPT ![s] = st]
           /\ templates' = r.tpl
           /\ frames_dir' =
                 IF sessions[s].pc = "render" /\ st.pc = "yield_frame"
                 THEN save_debug_frame(frames_dir, debug_enabled,
                                       st.session_id, st.frame_idx, s)
                 ELSE frames_dir
    /\ UNCHANGED << inputs, pc, num_frames, frame_idx, audio_features_cache,
                    retry_count, i, chunk_end, img_idx, step_stride, out,
                    error, stopped, nets, elapsed, slept, audio_feat, call,
                    now, debug_enabled >>

\* the client of session s goes away while the generator waits at a yield
ConcStop(s) ==
    /\ sessions[s].pc \in {"mel", "yield_frame"}
    /\ sessions' = [sessions EXCEPT ![s].pc = "cancelled"]
    /\ UNCHANGED << inputs, pc, num_frames, frame_idx, audio_features_cache,
                    retry_count, i, chunk_end, img_idx, step_stride, out,
                    error, stopped, nets, elapsed, slept, audio_feat, call,
                    templates, debug >>

ConcNext == \E s \in SessionIds : ConcStep(s) \/ ConcStop(s)

ConcSpec == ConcInit /\ [][ConcNext]_vars

(***************************************************************************)
(* Concurrent sessions with debug output enabled, under a running clock.   *)
(***************************************************************************)

\* as ConcInit, with settings.debug.enabled and save_frames set
DebugInit ==
    /\ entry = "text"
    /\ n_source = 0
    /\ mel_rows = 16
    /\ source_landmarks = << >>
    /\ crop_coords = get_crop_region(ValidLandmarks)
    /\ audio_duration = 0
    /\ Created
    /\ templates = SharedTemplates
    /\ now = 0
    /\ debug_enabled = TRUE
    /\ frames_dir = {}
    /\ \E n \in 0..MaxConcTemplates :
          sessions \in [SessionIds -> { NewSession(rows, n) : rows \in ConcMelLens }]

\* time passes
Tick ==
    /\ now < MaxClock
    /\ now' = now + 1
    /\ UNCHANGED << inputs, sessions, templates, debug_enabled, frames_dir,
                    pc, num_frames, frame_idx, audio_features_cache,
                    retry_count, i, chunk_end, img_idx, step_stride, out,
                    error, stopped, nets, elapsed, slept, audio_feat, call >>

DebugNext ==
    \/ \E s \in SessionIds : ConcStep(s) \/ ConcStop(s)
    \/ Tick

DebugSpec == DebugInit /\ [][DebugNext]_vars

\* the history of a session that runs alone, for as long as it is not cut
RECURSIVE SoloRun(_, _)
SoloRun(st, fuel) ==
    IF st.pc \in Terminal \/ fuel = 0
    THEN st.hist
    ELSE SoloRun(RecordedStep(st, SharedTemplates).st, fuel - 1)

SoloSteps(rows) == 6 * NumFrames(rows) + 2 * max_retries + 6

(***************************************************************************)
(* Properties                                                              *)
(***************************************************************************)
Speech == entry \in {"text", "audio"}

\* a landmark set that lacks point 1, 31 or 52, or spans no width
GeometryViolation(lms) == lms.n <= 52 \/ lms.x31 <= lms.x1

\* every landmark set of the session satisfies the geometry contract
GeometryValid ==
    /\ \A k \in 1..n_source : ~GeometryViolation(source_landmarks[k])
    /\ crop_coords.xmax > crop_coords.xmin

\* the padding of the cache is in place: the while loop has been entered
InStreaming == Speech /\ Len(audio_features_cache) > embed_calls

\* out is the placeholder followed by the generated frames 0 .. n-1
PlaceholderThenFrames(n) ==
    /\ Len(out) = n + 1
    /\ out[1] = StaticItem
    /\ \A j \in 2..Len(out) : out[j].kind = "frame" /\ out[j].idx = j - 2

\* C1: a speech session with valid geometry whose embedding and generator
\* calls all succeed
\* ends in DONE with frame_idx = num_frames, having emitted the placeholder
\* and exactly the frames 0 .. num_frames-1, for every num_frames >= 1.
C1_StreamEndsDone ==
    (/\ Speech
     /\ GeometryValid
     /\ pc \in {"done", "failed", "raised"}
     /\ num_frames >= 1
     /\ error \notin {"EmbedError", "GenError"})
    => (/\ pc = "done"
        /\ frame_idx = num_frames
        /\ PlaceholderThenFrames(num_frames))

\* C2: a speech session terminates even when the embedding network never
\* returns.
C2_TerminatesDespiteStall == Speech => <>(pc \in Terminal)

\* C3: once the consumer has stopped iterating, nothing more is emitted and
\* neither network is called again.
C3_NothingAfterStop ==
    [][stopped => (out' = out /\ embed_calls' = embed_calls
                   /\ gen_calls' = gen_calls /\ frame_idx' = frame_idx)]_vars

C3_Witness ==
    /\ stopped
    /\ Len(out) >= 3
    /\ out[Len(out)].kind = "frame"
    /\ out[Len(out)].idx + 1 < num_frames

\* C4: retry_count never exceeds 10; ten consecutive failed readiness checks
\* end the session in FAILED, which differs from DONE (frame_idx < num_frames
\* there, frame_idx = num_frames in DONE), and nothing is emitted afterwards.
C4_StarvationFails ==
    /\ [](retry_count <= 10)
    /\ [](pc = "failed" => (retry_count = 10 /\ frame_idx < num_frames
                            /\ ContextMissing(frame_idx, audio_features_cache)))
    /\ [](pc = "done" => (frame_idx = num_frames /\ retry_count < 10))
    /\ [][(pc = "check" /\ retry_count = 9
           /\ ContextMissing(frame_idx, audio_features_cache))
          => pc' = "failed"]_vars
    /\ [][pc = "failed" => (out' = out /\ pc' = "failed")]_vars

C4_Witness ==
    /\ pc = "failed"
    /\ retry_count = 10
    /\ Len(out) > 1

\* C5 (as stated, for an exception of one of the two networks): an exception
\* in the streaming phase ends the sequence normally; the consumer's
\* iteration never sees it.
C5_StreamErrorEndsQuietly ==
    (InStreaming /\ error \in {"EmbedError", "GenError"}) => pc # "raised"

\* C5 (amended): an exception in the streaming phase is re-raised into the
\* consumer's iteration; nothing is emitted afterwards, what was sent stays
\* as sent, and a normal end of the sequence carries no error.
C5_StreamErrorReraised ==
    /\ []((InStreaming /\ error # "none") => pc = "raised")
    /\ [](pc \in {"done", "failed", "returned"} => error = "none")
    /\ [][pc = "raised" => (out' = out /\ pc' = "raised")]_vars
    /\ [][Len(out') >= Len(out) /\ SubSeq(out', 1, Len(out)) = out]_vars

C5_Witness ==
    /\ pc = "raised"
    /\ error = "GenError"
    /\ InStreaming
    /\ Len(out) >= 3

\* C6: in a speech session the first item is the placeholder, it is the only
\* placeholder, and it is out before synthesis, decoding or the spectrogram
\* starts, on every path.
C6_PlaceholderFirst ==
    Speech =>
      /\ (tts_calls + mel_calls + embed_calls + gen_calls > 0 => Len(out) >= 1)
      /\ (pc \in Terminal \ {"cancelled"} => Len(out) >= 1)
      /\ (Len(out) >= 1 => out[1] = StaticItem)
      /\ \A j \in 2..Len(out) : out[j].kind # "static"

C6_Witness ==
    /\ entry = "text"
    /\ pc = "returned"
    /\ tts_calls = 1
    /\ out = << StaticItem >>

\* C7: the generated frames carry the indices 0, 1, 2, ... in order, each
\* once, whatever the processing time; pacing only adds a wait.
C7_NoFrameDropped ==
    Speech =>
      /\ \A j \in 2..Len(out) : out[j].kind = "frame" /\ out[j].idx = j - 2
      /\ slept >= 0
      /\ (pc \in {"loop", "check", "render", "gen_wait", "pace"}
            => frame_idx = Len(out) - 1)

C7_Witness ==
    /\ Speech
    /\ pc = "yield_frame"
    /\ Len(out) >= 4
    /\ elapsed > frame_time
    /\ slept = 0

\* C8: a speech session whose collaborators return terminates, with the
\* placeholder and at most num_frames generated frames emitted; idle mode
\* without source frames emits one static frame and ends; only idle mode
\* with source frames goes on until the consumer stops or a frame fails.
C8_SpeechTerminates ==
    /\ (Speech => <>(pc \in Terminal))
    /\ [](Speech => (Len(out) <= 1 + num_frames
                     /\ (pc \in Terminal \ {"cancelled"}
                           => (Len(out) >= 1 /\ out[1] = StaticItem))))
    /\ ((entry = "idle" /\ n_source = 0) => <>(pc \in Terminal))
    /\ []((entry = "idle" /\ n_source = 0 /\ pc \in Terminal \ {"cancelled"})
            => (pc = "returned" /\ out = << StaticItem >>))
    /\ []((entry = "idle" /\ n_source >= 2) => pc \notin {"done", "failed", "returned", "raised"})
    /\ []((entry = "idle" /\ n_source >= 2 /\ pc = "idle_loop") => Len(out) = frame_idx)

C8_Witness ==
    /\ entry = "text"
    /\ pc = "done"
    /\ Len(out) = 1 + num_frames
    /\ num_frames >= 2

CropFns == {"crop_audio_window", "AudDataset.crop_audio_window"}
ContextFns == {"get_audio_features", "get_audio_features_for_frame"}

\* C9 (as stated): crop_window returns exactly 16 rows for any spectrogram
\* and any frame index.
C9_CropAlways16 ==
    call.fn \in CropFns => (call.rows = 16 /\ ~call.raised)

\* C9 (amended): on a spectrogram of at least 16 columns crop_window returns
\* exactly 16 rows for every frame index, and a window that would pass the
\* end is shifted back so that it ends at n_mel_frames; a narrower
\* spectrogram yields no 16-row window (a shorter one from AudDataset, a
\* ValueError from MelSpectrogramProcessor).
C9_Crop16FromWideSpec ==
    call.fn \in CropFns =>
      /\ (call.n >= 16 =>
            /\ call.rows = 16
            /\ ~call.raised
            /\ call.end - call.start = 16
            /\ 0 <= call.start
            /\ call.end <= call.n
            /\ (((80 * call.idx) \div call.fps) + 16 > call.n
                  => (call.end = call.n /\ call.start = call.n - 16))
            /\ (((80 * call.idx) \div call.fps) + 16 <= call.n
                  => call.start = (80 * call.idx) \div call.fps))
      /\ (call.n < 16 =>
            /\ call.rows < 16
            /\ (call.fn = "crop_audio_window" => call.raised))

C9_Witness ==
    /\ call.fn = "crop_audio_window"
    /\ call.n = 20
    /\ call.idx = 10
    /\ call.fps = 25
    /\ call.start = 4
    /\ call.rows = 16

\* C10: get_context returns exactly 16 rows for every frame index of every
\* feature sequence of length >= 1, zero-padded past either end.
C10_ContextAlways16 ==
    call.fn \in ContextFns =>
      /\ call.rows = 16
      /\ \A j \in 1..call.rows :
            call.window[j] = IF (call.idx - 8) + (j - 1) \in 0..(call.n - 1)
                             THEN (call.idx - 8) + (j - 1)
                             ELSE Zero

\* C11: on a spectrogram that holds at least one window, frame_count equals
\* floor((n_mel_frames - 16) / 80 * fps) + 2, and every frame index below
\* frame_count maps to a window that lies inside the spectrogram.
C11_FrameCountIsFloor ==
    (call.fn = "get_frame_count" /\ call.n >= 16) =>
      /\ call.count = (((call.n - 16) * call.fps) \div 80) + 2
      /\ \A f \in 0..(call.count - 1) :
            /\ 0 <= CropStart(call.n, f, call.fps)
            /\ CropEnd(call.n, f, call.fps) <= call.n

\* the ping-pong walk 0,1,...,N-1,N-2,...,1,0,1,... at step k
PingPong(N, k) ==
    LET r == k % (2 * (N - 1))
    IN  IF r < N THEN r ELSE 2 * (N - 1) - r

\* C12: with N = 4 source frames the frames rendered use the template
\* indices 0,1,2,3,2,1,0,1,2,3,...: the first one index 0, reversing at 3 and
\* at 0 without wrapping and without repeating an end index.
C12_WalkStartsAtZero ==
    n_source = 4 =>
      \A j \in 1..Len(out) :
         out[j].kind = "frame" => out[j].template = PingPong(4, out[j].idx)

PasteFns == {"paste_generated_region", "process_frame_with_parsing"}

\* pixel (r, c), 1-based, lies outside crop_coords
OutsideCrop(r, c) ==
    ~(call.ymin < r /\ r <= call.ymax /\ call.xmin < c /\ c <= call.xmax)

\* C13: the frame returned by composite() has the shape of full_frame, every
\* pixel outside crop_coords equals the pixel of the input full_frame, and
\* the input full_frame is left as it was.
C13_OutsideCropUntouched ==
    (call.fn \in PasteFns /\ ~call.raised) =>
      /\ Len(call.ret) = Len(call.frame)
      /\ \A r \in 1..Len(call.frame) :
            /\ Len(call.ret[r]) = Len(call.frame[r])
            /\ \A c \in 1..Len(call.frame[r]) :
                  OutsideCrop(r, c) => call.ret[r][c] = call.frame[r][c]
      /\ call.arg = call.frame

C13_Witness ==
    /\ call.fn = "process_frame_with_parsing"
    /\ ~call.raised
    /\ call.parsing = "checker"
    /\ call.xmin = 1 /\ call.xmax = 3 /\ call.ymin = 0 /\ call.ymax = 2
    /\ call.ret[1][2] = GenPixel
    /\ call.ret[1][3] = call.frame[1][3]
    /\ call.ret # call.frame

\* C14 (as stated): for a waveform of at least one window (800 samples) the
\* mel output has shape (80, 1 + floor((len - win) / hop)) and every value
\* lies in [-4, 4].
C14_ShapeUncentered ==
    (call.fn = "melspectrogram" /\ call.n >= win_length) =>
      /\ call.rows = 80
      /\ call.cols = 1 + ((call.n - 800) \div 200)
      /\ -400 <= call.value /\ call.value <= 400

\* C14 (amended): for a waveform of at least one window the mel output has
\* shape (80, 1 + floor(len / hop)), the frames being centred, and every
\* value lies in [-4, 4].
C14_ShapeCentered ==
    (call.fn = "melspectrogram" /\ call.n >= win_length) =>
      /\ call.rows = 80
      /\ call.cols = 1 + (call.n \div 200)
      /\ -400 <= call.value /\ call.value <= 400

C14_Witness ==
    /\ call.fn = "melspectrogram"
    /\ call.n = 950
    /\ call.cols = 5
    /\ call.level = 50
    /\ call.value = 400

\* the waveform holds fewer samples than one STFT window
ShortWaveform == mel_rows <= StftFrames(win_length - 1)

\* C15: a waveform shorter than one STFT window makes the session fail
\* after the placeholder and before any generated frame, and no window of
\* fewer than 16 columns is ever passed to the embedding network.
C15_ShortWaveformFailsFast ==
    /\ (pc \in {"chunk0_wait", "chunk_wait"} => MelWindowRows(i, mel_rows) >= 16)
    /\ ((Speech /\ ShortWaveform) =>
          /\ \A j \in 1..Len(out) : out[j].kind # "frame"
          /\ gen_calls = 0
          /\ ((mel_calls > 0 /\ pc \in Terminal \ {"cancelled"})
                => (pc = "raised" /\ out = << StaticItem >>)))

\* number of embeddings computed so far (the cache without its padding)
Computed == Len(audio_features_cache) - pad_frames

\* C20: in a streaming session the cache is ordered and gap-free: slot 8 + k
\* holds the embedding of frame k for every k below the number of computed
\* embeddings; an extension starts at the first frame index not yet
\* embedded and appends at most 50 embeddings.
C20_CacheGapFree ==
    InStreaming =>
      /\ \A k \in 0..(Computed - 1) : audio_features_cache[pad_frames + k + 1] = k
      /\ (pc \in {"chunk", "chunk_wait"} =>
            (i = Computed /\ chunk_end - i <= 50))

\* frame indices whose mel window has been embedded
EmbeddedSet == { audio_features_cache[j] : j \in 1..Len(audio_features_cache) }

\* C17: an exception of the embedding network or of the generator is fatal
\* and never retried: the generator is called for the frame indices 0, 1, 2,
\* ... once each, no mel window is embedded twice, and after the failure no
\* frame is emitted and no network is called.
C17_InferenceFailureFatal ==
    /\ [][gen_calls' # gen_calls
            => (gen_calls' = gen_calls + 1 /\ gen_calls = frame_idx)]_vars
    /\ [][embed_calls' # embed_calls
            => ((embed_calls' = embed_calls + 1) /\ (i \notin EmbeddedSet)
                 /\ (embed_calls = Cardinality(EmbeddedSet)))]_vars
    /\ [](error \in {"EmbedError", "GenError"} => pc = "raised")
    /\ [][(error \in {"EmbedError", "GenError"})
            => ((out' = out) /\ (gen_calls' = gen_calls)
                 /\ (embed_calls' = embed_calls) /\ (error' = error))]_vars

C17_Witness ==
    /\ pc = "raised"
    /\ error = "EmbedError"
    /\ Len(out) > 2
    /\ gen_calls = frame_idx

IsPrefix(a, b) == Len(a) <= Len(b) /\ SubSeq(b, 1, Len(a)) = a

\* C18: however the steps of concurrent sessions interleave, the shared
\* template image and crop are never modified, and the sequence of
\* (frame_idx, template cursor, cache length) of every session is the one
\* of that session running alone (all of it once the session is done).
C18_SessionsIndependent ==
    /\ templates = SharedTemplates
    /\ \A s \in DOMAIN sessions :
          LET alone == SoloRun(NewSession(sessions[s].mel_rows,
                                          sessions[s].n_source),
                               SoloSteps(sessions[s].mel_rows))
          IN  /\ IsPrefix(sessions[s].hist, alone)
              /\ (sessions[s].pc \in Terminal \ {"cancelled"}
                    => sessions[s].hist = alone)

\* two sessions on the shared template, both in the middle of their
\* streams, one of them having composited a frame
C18_Witness ==
    /\ DOMAIN sessions = SessionIds
    /\ sessions[1].n_source = 0
    /\ sessions[1].pc = "yield_frame"
    /\ sessions[1].frame # templates.img
    /\ sessions[2].pc = "render"
    /\ sessions[2].frame_idx = 1
    /\ sessions[1].frame_idx = 0

\* C21: the context window handed to the generator for frame k holds the
\* embedding of frame k itself, and besides padding only embeddings of the
\* frames k-8 .. k+7.
C21_ContextCentredOnFrame ==
    (Speech /\ pc = "gen_wait") =>
      /\ \E j \in 1..Len(audio_feat) : audio_feat[j] = frame_idx
      /\ \A j \in 1..Len(audio_feat) :
            audio_feat[j] = Zero
            \/ (frame_idx - 8 <= audio_feat[j] /\ audio_feat[j] <= frame_idx + 7)

\* C22: a frame k is rendered (its context fetched, the generator invoked)
\* only if len(cache) - 8 >= k, and the cache never gets shorter.
C22_RenderableOnlyWithContext ==
    /\ []((Speech /\ pc \in {"render", "gen_wait"})
            => Len(audio_features_cache) - 8 >= frame_idx)
    /\ [][(gen_calls' # gen_calls)
            => Len(audio_features_cache) - 8 >= frame_idx]_vars
    /\ [][Len(audio_features_cache') >= Len(audio_features_cache)]_vars

\* a frame of the second batch at the edge of the cache
C22_Witness ==
    /\ Speech
    /\ pc = "gen_wait"
    /\ frame_idx >= chunk_size
    /\ Len(audio_features_cache) - 8 = frame_idx + 1

\* C23: the number of frames scheduled for a spectrogram of n_mel_frames
\* columns at 25 fps is floor((n_mel_frames-16)/80*fps) + 2, the value of
\* get_frame_count.
C23_ScheduledIsFrameCount ==
    (Speech /\ mel_rows >= context_size /\ num_frames > 0)
      => num_frames = get_frame_count(mel_rows, fps_default)

\* C24: the mel window embedded for frame index i starts at
\* floor(80*i/fps), shifted back so that it ends at n_mel_frames: the
\* window crop_audio_window returns for i.
C24_EmbeddedWindowIsCropWindow ==
    (Speech /\ mel_rows >= context_size /\ pc \in {"chunk0_wait", "chunk_wait"})
      => MelIdx(i, mel_rows) = crop_audio_window(mel_rows, i, fps_default).start

\* C25: the emission time is recorded after the pacing wait: two
\* consecutive recorded emission times differ by at least interval, by
\* exactly interval when the frame was ready in less than interval, and
\* the wait is the interval minus the processing time, never more than the
\* interval.
C25_EmissionSpacing ==
    (pc \in {"yield_frame", "yield_idle"}) =>
      /\ LastFrameTimeStep(elapsed, slept) >= frame_time
      /\ (elapsed < frame_time => LastFrameTimeStep(elapsed, slept) = frame_time)
      /\ (elapsed >= frame_time => LastFrameTimeStep(elapsed, slept) = elapsed)
      /\ slept <= frame_time
      /\ slept = IF elapsed < frame_time THEN frame_time - elapsed ELSE 0

\* a later frame that was ready early and waited for the rest
C25_Witness ==
    /\ pc = "yield_frame"
    /\ frame_idx >= 2
    /\ elapsed > 0
    /\ elapsed < frame_time
    /\ slept = frame_time - elapsed

\* C26: in every compositing path the outer 4-pixel border of the canvas
\* is the resized original crop, and only [4:324, 4:324] holds generated
\* pixels.
C26_CanvasBorderIsCrop ==
    (call.fn = "canvas") =>
      call.pixel = IF InInner(call.r, call.c) THEN GenPixel ELSE call.crop

\* number of generated frames generate_frames emits for a spectrogram of
\* rows mel rows on n source frames, when the networks return and the
\* consumer keeps reading: the frame_idx its run ends with
TextFrames(rows, n) ==
    LET h == SoloRun(NewSession(rows, n), SoloSteps(rows))
    IN  h[Len(h)][1]

\* C27: generate_frames_from_audio emits the placeholder followed by as
\* many generated frames as generate_frames does for the same waveform,
\* with source frames and without.
C27_AudioPathSameAsText ==
    (/\ entry = "audio"
     /\ mel_rows >= context_size
     /\ pc \in Terminal \ {"cancelled"}
     /\ error \notin {"EmbedError", "GenError", "ValueError"})
    => (/\ out[1] = StaticItem
        /\ Len(out) - 1 = TextFrames(mel_rows, n_source))

\* debug frames the session has saved so far
SavedFrames(st) ==
    IF st.pc = "yield_frame" THEN 0..st.frame_idx ELSE 0..(st.frame_idx - 1)

\* C30: any two sessions of the same kind that have started carry different
\* session ids, whenever they started, so every debug frame a session has
\* saved is still the file of that name.
C30_SessionIdsUnique ==
    /\ \A s, t \in DOMAIN sessions :
          (s # t /\ sessions[s].session_id # NoSessionId
                 /\ sessions[t].session_id # NoSessionId)
            => sessions[s].session_id # sessions[t].session_id
    /\ debug_enabled =>
          \A s \in DOMAIN sessions :
             \A k \in SavedFrames(sessions[s]) :
                [path |-> << sessions[s].session_id, k >>, writer |-> s]
                   \in frames_dir

\* C28: for every template set of N >= 1 frames the head-motion cursor
\* used to index the set stays within 0 .. N-1, having moved up from 0
\* (direction +1) or down from N-1 (direction -1).
C28_CursorInRange ==
    (HeadMotion /\ entry \in {"text", "idle"}) =>
      /\ 0 <= img_idx
      /\ img_idx <= n_source - 1
      /\ step_stride \in {-1, 0, 1}
      /\ (step_stride = 1 => img_idx >= 1)
      /\ (step_stride = -1 => img_idx <= n_source - 2)

\* C29: a failed readiness check and the sleep behind it change only
\* retry_count (frame_idx, the template cursor and the output stay), the
\* cursor moves only when a frame is rendered, so the j-th emitted frame
\* shows the template reached after j steps, and every rendering starts
\* from retry_count = 0.
C29_RetryChangesOnlyRetryCount ==
    /\ [][(Speech /\ pc = "check"
            /\ ContextMissing(frame_idx, audio_features_cache)) =>
              /\ retry_count' = retry_count + 1
              /\ UNCHANGED << frame_idx, img_idx, step_stride, out >>]_vars
    /\ [][(Speech /\ pc = "retry_sleep") =>
              UNCHANGED << retry_count, frame_idx, img_idx, step_stride,
                           out >>]_vars
    /\ [][(Speech /\ img_idx' # img_idx) => pc = "render"]_vars
    /\ []((Speech /\ pc \in {"render", "gen_wait", "pace", "yield_frame"})
            => retry_count = 0)
    /\ []((entry = "text" /\ n_source >= 2) =>
            \A j \in 2..Len(out) :
               out[j].template = PingPong(n_source, j - 1))

\* retries in progress behind emitted head-motion frames
C29_Witness ==
    /\ entry = "text"
    /\ HeadMotion
    /\ n_source >= 2
    /\ pc = "retry_sleep"
    /\ retry_count >= 2
    /\ Len(out) > n_source + 1

====
